---------------------------- MODULE Spec2Model ----------------------------
(***************************************************************************)
(* A model of src/swaili_mpesa_parser.py: the SwahiliMPESAParser class.    *)
(* Messages are character strings; the regular expressions of the parser   *)
(* are kept as syntax trees and matched by a backtracking matcher with the *)
(* semantics of Python's re module (leftmost match, ordered alternation,   *)
(* greedy and lazy repetition, named groups).                              *)
(***************************************************************************)
EXTENDS Integers, Sequences, FiniteSets, TLC

(***************************************************************************)
(* Characters and character classes                                        *)
(***************************************************************************)
Chr(s, i) == SubSeq(s, i, i)

Digits == {"0", "1", "2", "3", "4", "5", "6", "7", "8", "9"}

UpperLetters ==
    {"A", "B", "C", "D", "E", "F", "G", "H", "I", "J", "K", "L", "M",
     "N", "O", "P", "Q", "R", "S", "T", "U", "V", "W", "X", "Y", "Z"}

\* \s of the re module, restricted to the whitespace the messages use
Whitespace == {" ", "\t", "\n", "\r"}

\* str.lower() on one character
LowerChar(c) ==
    CASE c = "A" -> "a" [] c = "B" -> "b" [] c = "C" -> "c" [] c = "D" -> "d"
      [] c = "E" -> "e" [] c = "F" -> "f" [] c = "G" -> "g" [] c = "H" -> "h"
      [] c = "I" -> "i" [] c = "J" -> "j" [] c = "K" -> "k" [] c = "L" -> "l"
      [] c = "M" -> "m" [] c = "N" -> "n" [] c = "O" -> "o" [] c = "P" -> "p"
      [] c = "Q" -> "q" [] c = "R" -> "r" [] c = "S" -> "s" [] c = "T" -> "t"
      [] c = "U" -> "u" [] c = "V" -> "v" [] c = "W" -> "w" [] c = "X" -> "x"
      [] c = "Y" -> "y" [] c = "Z" -> "z" [] OTHER -> c

RECURSIVE Lower(_)
\* str.lower(): case folding of a whole string (by halves)
Lower(s) ==
    IF Len(s) = 0 THEN s
    ELSE IF Len(s) = 1 THEN LowerChar(s)
    ELSE LET h == Len(s) \div 2
         IN  Lower(SubSeq(s, 1, h)) \o Lower(SubSeq(s, h + 1, Len(s)))

(***************************************************************************)
(* Regular expression syntax trees                                         *)
(***************************************************************************)
Lit(s) == [t |-> "lit", s |-> s]
Cls(S) == [t |-> "cls", neg |-> FALSE, S |-> S]
NotCls(S) == [t |-> "cls", neg |-> TRUE, S |-> S]
\* c{lo,hi}; hi < 0 stands for no upper limit; lazy is the trailing ?
Rep(c, lo, hi, lazy) == [t |-> "rep", c |-> c, lo |-> lo, hi |-> hi, lazy |-> lazy]
Opt(x) == [t |-> "opt", x |-> x]
Alt(xs) == [t |-> "alt", xs |-> xs]
Cat(xs) == [t |-> "cat", xs |-> xs]
Grp(name, x) == [t |-> "grp", name |-> name, x |-> x]

Ws == Cls(Whitespace)                    \* \s
Digit == Cls(Digits)                     \* \d
AnyChar == NotCls({})                    \* . under re.DOTALL
AmountChars == Cls(Digits \cup {",", "."})  \* [\d,.]

RECURSIVE FoldRegex(_)
\* re.IGNORECASE: literals and classes are compared case-folded
FoldRegex(n) ==
    CASE n.t = "lit" -> Lit(Lower(n.s))
      [] n.t = "cls" -> [n EXCEPT !.S = {LowerChar(c) : c \in n.S}]
      [] n.t = "rep" -> [n EXCEPT !.c = FoldRegex(n.c)]
      [] n.t = "opt" -> Opt(FoldRegex(n.x))
      [] n.t = "grp" -> Grp(n.name, FoldRegex(n.x))
      [] n.t = "alt" -> Alt([i \in 1..Len(n.xs) |-> FoldRegex(n.xs[i])])
      [] n.t = "cat" -> Cat([i \in 1..Len(n.xs) |-> FoldRegex(n.xs[i])])

\* re.compile(pattern, flags)
ReCompile(re, ignorecase) ==
    [re |-> IF ignorecase THEN FoldRegex(re) ELSE re, ignorecase |-> ignorecase]

(***************************************************************************)
(* The matcher: the backtracking of the re module.  An outcome is one way  *)
(* a pattern can match: the index after the matched text and the groups    *)
(* captured on the way.  MatchNode gives the outcomes of a pattern in the  *)
(* order in which re tries them (the branches of an alternation from left  *)
(* to right, a greedy repetition from its longest run down, a lazy one     *)
(* from its shortest up, an optional part before its absence); the match   *)
(* re reports is the first way through the whole pattern in that order.    *)
(***************************************************************************)
InClass(c, ch) == IF c.neg THEN ch \notin c.S ELSE ch \in c.S

RECURSIVE Run(_, _, _, _)
\* how many characters of t[lo..hi], from lo on, are in class c (by halves)
Run(t, c, lo, hi) ==
    IF lo > hi THEN 0
    ELSE IF lo = hi THEN (IF InClass(c, Chr(t, lo)) THEN 1 ELSE 0)
    ELSE LET mid == (lo + hi) \div 2
             left == Run(t, c, lo, mid)
         IN  IF left < mid - lo + 1 THEN left ELSE left + Run(t, c, mid + 1, hi)

\* how many characters from pos on are in class c, at most cap of them
RunLen(t, c, pos, cap) ==
    Run(t, c, pos, IF Len(t) < pos + cap - 1 THEN Len(t) ELSE pos + cap - 1)

RECURSIVE MatchNode(_, _, _)
RECURSIVE MatchSeq(_, _, _, _)
RECURSIVE MatchEach(_, _, _, _, _)
RECURSIVE MatchAlt(_, _, _, _)

\* the patterns xs[i], xs[i+1], ... one after the other, from each of outs
MatchSeq(t, xs, i, outs) ==
    IF i > Len(xs) \/ Len(outs) = 0 THEN outs
    ELSE MatchSeq(t, xs, i + 1, MatchEach(t, xs[i], outs, 1, Len(outs)))

\* pattern n from each of outs[lo..hi], in their order (by halves)
MatchEach(t, n, outs, lo, hi) ==
    IF lo > hi THEN <<>>
    ELSE IF lo = hi THEN MatchNode(t, n, outs[lo])
    ELSE LET mid == (lo + hi) \div 2
         IN  MatchEach(t, n, outs, lo, mid) \o MatchEach(t, n, outs, mid + 1, hi)

\* ordered alternation: the branches xs[i], xs[i+1], ... in their order
MatchAlt(t, xs, i, o) ==
    IF i > Len(xs) THEN <<>>
    ELSE MatchNode(t, xs[i], o) \o MatchAlt(t, xs, i + 1, o)

\* pattern n from outcome o
MatchNode(t, n, o) ==
    CASE n.t = "lit" ->
           IF /\ o.end + Len(n.s) - 1 <= Len(t)
              /\ SubSeq(t, o.end, o.end + Len(n.s) - 1) = n.s
           THEN <<[o EXCEPT !.end = o.end + Len(n.s)]>>
           ELSE <<>>
      [] n.t = "cls" ->
           IF o.end <= Len(t) /\ InClass(n, Chr(t, o.end))
           THEN <<[o EXCEPT !.end = o.end + 1]>>
           ELSE <<>>
      [] n.t = "rep" ->
           LET run == RunLen(t, n.c, o.end, IF n.hi < 0 THEN Len(t) ELSE n.hi)
           IN  IF run < n.lo THEN <<>>
               ELSE [i \in 1..(run - n.lo + 1) |->
                        [o EXCEPT !.end = o.end + (IF n.lazy THEN n.lo + i - 1
                                                   ELSE run - i + 1)]]
      [] n.t = "opt" -> MatchNode(t, n.x, o) \o <<o>>
      [] n.t = "alt" -> MatchAlt(t, n.xs, 1, o)
      [] n.t = "cat" -> MatchSeq(t, n.xs, 1, <<o>>)
      [] n.t = "grp" ->
           LET rs == MatchNode(t, n.x, o)
           IN  [i \in 1..Len(rs) |->
                  [rs[i] EXCEPT !.caps = (n.name :> <<o.end, rs[i].end>>) @@ rs[i].caps]]

NoMatch == [ok |-> FALSE]

RECURSIVE MatchFirst(_, _, _, _)
RECURSIVE MatchFirstOf(_, _, _, _, _, _)

\* the first way through the patterns xs[i], xs[i+1], ... from outcome o
MatchFirst(t, xs, i, o) ==
    IF i > Len(xs) THEN [ok |-> TRUE, end |-> o.end, caps |-> o.caps]
    ELSE LET outs == MatchNode(t, xs[i], o)
         IN  IF Len(outs) = 0 THEN NoMatch
             ELSE MatchFirstOf(t, xs, i, outs, 1, Len(outs))

\* the first of outs[lo..hi] from which xs[i+1], ... match (by halves)
MatchFirstOf(t, xs, i, outs, lo, hi) ==
    IF lo = hi THEN MatchFirst(t, xs, i + 1, outs[lo])
    ELSE LET mid == (lo + hi) \div 2
             left == MatchFirstOf(t, xs, i, outs, lo, mid)
         IN  IF left.ok THEN left ELSE MatchFirstOf(t, xs, i, outs, mid + 1, hi)

\* Pattern.match(string, pos): the match that begins at index pos, if any
MatchAt(p, t, pos) ==
    MatchFirst(t, IF p.re.t = "cat" THEN p.re.xs ELSE <<p.re>>, 1,
               [end |-> pos, caps |-> <<>>])

RECURSIVE FirstMatch(_, _, _, _)
\* the match at the leftmost of the positions lo..hi that has one (by halves)
FirstMatch(p, t, lo, hi) ==
    IF lo = hi
    THEN LET r == MatchAt(p, t, lo)
         IN  IF r.ok THEN [ok |-> TRUE, start |-> lo, end |-> r.end, caps |-> r.caps]
             ELSE NoMatch
    ELSE LET mid == (lo + hi) \div 2
             left == FirstMatch(p, t, lo, mid)
         IN  IF left.ok THEN left ELSE FirstMatch(p, t, mid + 1, hi)

\* Pattern.search(string): the match at the leftmost position that has one
Search(p, string) ==
    LET t == IF p.ignorecase THEN Lower(string) ELSE string
    IN  FirstMatch(p, t, 1, Len(t) + 1)

(***************************************************************************)
(* SwahiliMPESAParser.__init__: the patterns                               *)
(***************************************************************************)
\* \d{1,2}/\d{1,2}/\d{2}
DatePattern ==
    Cat(<<Rep(Digit, 1, 2, FALSE), Lit("/"), Rep(Digit, 1, 2, FALSE), Lit("/"),
          Rep(Digit, 2, 2, FALSE)>>)

\* \d{1,2}:\d{2}\s*[AP]M
TimePattern ==
    Cat(<<Rep(Digit, 1, 2, FALSE), Lit(":"), Rep(Digit, 2, 2, FALSE),
          Rep(Ws, 0, -1, FALSE), Cls({"A", "P"}), Lit("M")>>)

\* [\d,.]+
AmountPattern == Rep(AmountChars, 1, -1, FALSE)

\* (?P<transaction_id>[A-Z0-9]{10})\s+Imethibitishwa\.?\s*
base_pattern ==
    Cat(<<Grp("transaction_id", Rep(Cls(UpperLetters \cup Digits), 10, 10, FALSE)),
          Rep(Ws, 1, -1, FALSE), Lit("Imethibitishwa"),
          Rep(Cls({"."}), 0, 1, FALSE), Rep(Ws, 0, -1, FALSE)>>)

KUTUMA_pattern ==
    Cat(<<Lit("Ksh"), Grp("kutuma_amount", AmountPattern), Ws,
          Lit("imetumwa"), Ws, Lit("kwa"), Ws,
          Grp("kutuma_recipient", Rep(NotCls(Digits), 1, -1, TRUE)), Ws,
          Grp("kutuma_phone", Rep(Digit, 10, 10, FALSE)), Ws,
          Alt(<<Lit("tarehe"), Lit("siku")>>), Ws,
          Grp("kutuma_date", DatePattern), Ws,
          Lit("saa"), Ws, Grp("kutuma_time", TimePattern)>>)

KUPOKEA_pattern ==
    Cat(<<Lit("Umepokea"), Ws, Lit("Ksh"), Grp("kupokea_amount", AmountPattern), Ws,
          Lit("kutoka"), Ws,
          Grp("kupokea_sender", Rep(NotCls(Digits), 1, -1, TRUE)), Ws,
          Grp("kupokea_phone", Rep(Digit, 10, 10, FALSE)), Ws,
          Lit("mnamo"), Ws,
          Grp("kupokea_date", DatePattern), Ws,
          Lit("saa"), Ws, Grp("kupokea_time", TimePattern)>>)

SALIO_pattern ==
    Cat(<<Lit("Baki"), Ws, Lit("yako"), Ws, Lit("ni:"), Ws,
          Lit("Akaunti"), Ws, Lit("ya"), Ws, Lit("M-PESA"), Ws, Lit(":"), Ws,
          Lit("Ksh"), Grp("salio_amount", AmountPattern), Ws,
          Alt(<<Lit("Tarehe"), Lit("tarehe")>>), Ws,
          Grp("salio_date", DatePattern), Ws,
          Lit("saa"), Ws, Grp("salio_time", TimePattern)>>)

KULIPA_TILL_pattern ==
    Cat(<<Lit("Umelipa"), Ws, Lit("Ksh"), Grp("kulipa_amount", AmountPattern), Ws,
          Lit("kwa"), Ws,
          Grp("kulipa_merchant", Rep(NotCls(Digits), 1, -1, TRUE)), Ws,
          Grp("kulipa_date", DatePattern), Ws,
          Grp("kulipa_time", TimePattern)>>)

DATA_pattern ==
    Cat(<<Lit("Ksh"), Grp("data_amount", AmountPattern), Ws,
          Lit("zimetumwa"), Ws, Lit("kwa"), Ws, Lit("SAFARICOM"), Ws,
          Lit("DATA"), Ws, Lit("BUNDLES"),
          Opt(Cat(<<Ws, Lit("kwa"), Ws, Lit("akaunti"), Ws, Lit("SAFARICOM"), Ws,
                    Lit("DATA"), Ws, Lit("BUNDLES")>>)), Ws,
          Lit("mnamo"), Ws,
          Grp("data_date", DatePattern), Ws,
          Lit("saa"), Ws, Grp("data_time", TimePattern)>>)

MJAZO_pattern ==
    Cat(<<Lit("Umenunua"), Ws, Lit("Ksh"), Grp("mjazo_amount", AmountPattern), Ws,
          Lit("ya"), Ws, Lit("mjazo"), Ws,
          Alt(<<Lit("siku"), Lit("tarehe")>>), Ws,
          Grp("mjazo_date", DatePattern), Ws,
          Lit("saa"), Ws, Grp("mjazo_time", TimePattern)>>)

PAYBILL_pattern ==
    Cat(<<Lit("Ksh"), Grp("paybill_amount", AmountPattern), Ws,
          Lit("imetumwa"), Ws, Lit("kwa"), Ws,
          Grp("paybill_name", Rep(NotCls({"k"}), 1, -1, TRUE)), Ws,
          Lit("kwa"), Ws, Lit("akaunti"), Ws, Lit("nambari"), Ws,
          Grp("paybill_account", Rep(Digit, 1, -1, FALSE))>>)

KUPOKEA_BANK_pattern ==
    Cat(<<Lit("Umepokea"), Ws, Lit("Ksh"), Grp("kupokea_bank_amount", AmountPattern), Ws,
          Lit("kutoka"), Ws,
          Grp("kupokea_bank_name", Rep(NotCls(Digits), 1, -1, TRUE)), Ws,
          Grp("kupokea_bank_account", Rep(Digit, 1, -1, FALSE)), Ws,
          Lit("mnamo"), Ws,
          Grp("kupokea_bank_date", DatePattern), Ws,
          Lit("saa"), Ws, Grp("kupokea_bank_time", TimePattern)>>)

POCHI_LA_BIASHARA_pattern ==
    Cat(<<Lit("Ksh"), Grp("pochi_amount", AmountPattern), Ws,
          Lit("imetumwa"), Ws, Lit("kwa"), Ws,
          Grp("pochi_recipient", Rep(NotCls(Digits), 1, -1, TRUE)), Ws,
          Alt(<<Lit("tarehe"), Lit("siku")>>), Ws,
          Grp("pochi_date", DatePattern), Ws,
          Lit("saa"), Ws, Grp("pochi_time", TimePattern)>>)

\* self.transaction_patterns: a dict, kept in insertion order
TransactionPatterns ==
    << [tag |-> "KUTUMA", re |-> KUTUMA_pattern],
       [tag |-> "KUPOKEA", re |-> KUPOKEA_pattern],
       [tag |-> "SALIO", re |-> SALIO_pattern],
       [tag |-> "KULIPA_TILL", re |-> KULIPA_TILL_pattern],
       [tag |-> "DATA", re |-> DATA_pattern],
       [tag |-> "MJAZO", re |-> MJAZO_pattern],
       [tag |-> "PAYBILL", re |-> PAYBILL_pattern],
       [tag |-> "KUPOKEA_BANK", re |-> KUPOKEA_BANK_pattern],
       [tag |-> "POCHI_LA_BIASHARA", re |-> POCHI_LA_BIASHARA_pattern] >>

\* Baki\s(?:yako|mpya)(?:\sya|\smpya\skatika|\skatika)\sM-PESA\sni\sKsh(?P<mpesa_balance>[\d,.]+)
mpesa_balance_pattern ==
    Cat(<<Lit("Baki"), Ws, Alt(<<Lit("yako"), Lit("mpya")>>),
          Alt(<<Cat(<<Ws, Lit("ya")>>),
                Cat(<<Ws, Lit("mpya"), Ws, Lit("katika")>>),
                Cat(<<Ws, Lit("katika")>>)>>), Ws,
          Lit("M-PESA"), Ws, Lit("ni"), Ws, Lit("Ksh"),
          Grp("mpesa_balance", AmountPattern)>>)

\* Gharama\sya\s(?:kutuma|kununua|matumizi|kulipa)\sni\sKsh(?P<transaction_cost>[\d,.]+)
transaction_cost_pattern ==
    Cat(<<Lit("Gharama"), Ws, Lit("ya"), Ws,
          Alt(<<Lit("kutuma"), Lit("kununua"), Lit("matumizi"), Lit("kulipa")>>), Ws,
          Lit("ni"), Ws, Lit("Ksh"),
          Grp("transaction_cost", AmountPattern)>>)

\* Kiwango\scha\sPesa\sunachoweza\skutuma\skwa\ssiku\sni\s(?P<daily_limit>[\d,.]+)
daily_limit_pattern ==
    Cat(<<Lit("Kiwango"), Ws, Lit("cha"), Ws, Lit("Pesa"), Ws,
          Lit("unachoweza"), Ws, Lit("kutuma"), Ws, Lit("kwa"), Ws,
          Lit("siku"), Ws, Lit("ni"), Ws,
          Grp("daily_limit", AmountPattern)>>)

\* self.additional_patterns: a dict, kept in insertion order
AdditionalPatterns ==
    << [key |-> "mpesa_balance", re |-> mpesa_balance_pattern],
       [key |-> "transaction_cost", re |-> transaction_cost_pattern],
       [key |-> "daily_limit", re |-> daily_limit_pattern] >>

\* self.failed_pattern: compiled without flags, so it is case sensitive
FailedPattern ==
    ReCompile(Alt(<<Cat(<<Lit("Hakuna"), Ws, Lit("pesa"), Ws, Lit("za"), Ws,
                          Lit("kutosha")>>),
                    Lit("Imefeli"),
                    Cat(<<Lit("Umekataa"), Ws, Lit("kuidhinisha"), Ws, Lit("amali")>>),
                    Cat(<<Lit("Huduma"), Ws, Lit("hi"), Ws, Lit("haipatikani")>>)>>),
              FALSE)

(***************************************************************************)
(* SwahiliMPESAParser.compile_patterns                                     *)
(***************************************************************************)
\* The patterns are joined as strings: the join of two sequences of patterns is
\* one sequence, so a Cat is built from the elements of the Cats it joins.

\* '|'.join(f"(?P<{tx_type}>{pattern})" ...)
\* a variant of transaction_part that joins the grammars in reverse order
transaction_part_Reversed(tps) ==
    Alt([i \in 1..Len(tps) |->
            Grp(tps[Len(tps) + 1 - i].tag, tps[Len(tps) + 1 - i].re)])

transaction_part(tps) ==
    Alt([i \in 1..Len(tps) |-> Grp(tps[i].tag, tps[i].re)])

RECURSIVE additional_part(_, _)
\* ''.join(f"(?:.*?{pattern})?" ...): the elements for aps[i], aps[i+1], ...
additional_part(aps, i) ==
    IF i > Len(aps) THEN <<>>
    ELSE <<Opt(Cat(<<Rep(AnyChar, 0, -1, TRUE)>> \o aps[i].re.xs))>>
             \o additional_part(aps, i + 1)

\* the complete pattern, compiled with re.IGNORECASE | re.DOTALL; the group
\* around the alternation has no name and is not in groupdict()
compile_patterns(tps, aps) ==
    ReCompile(Cat(<<Opt(base_pattern), transaction_part(tps)>>
                      \o additional_part(aps, 1)),
              TRUE)

(***************************************************************************)
(* Strings, floats and dicts of the Python runtime                         *)
(***************************************************************************)
RECURSIVE LStrip(_)
LStrip(s) == IF Len(s) > 0 /\ Chr(s, 1) \in Whitespace THEN LStrip(Tail(s)) ELSE s

RECURSIVE RStrip(_, _)
\* str.rstrip(chars)
RStrip(s, chars) ==
    IF Len(s) > 0 /\ Chr(s, Len(s)) \in chars
    THEN RStrip(SubSeq(s, 1, Len(s) - 1), chars)
    ELSE s

\* str.strip()
Strip(s) == RStrip(LStrip(s), Whitespace)

RECURSIVE Remove(_, _)
\* str.replace(c, ''), for a single character c
Remove(s, c) ==
    IF Len(s) = 0 THEN s
    ELSE IF Len(s) = 1 THEN (IF s = c THEN "" ELSE s)
    ELSE LET h == Len(s) \div 2
         IN  Remove(SubSeq(s, 1, h), c) \o Remove(SubSeq(s, h + 1, Len(s)), c)

DigitVal(c) ==
    CASE c = "0" -> 0 [] c = "1" -> 1 [] c = "2" -> 2 [] c = "3" -> 3 [] c = "4" -> 4
      [] c = "5" -> 5 [] c = "6" -> 6 [] c = "7" -> 7 [] c = "8" -> 8 [] c = "9" -> 9

RECURSIVE StrToNat(_)
\* the number a string of digits writes ("" writes 0)
StrToNat(s) ==
    IF Len(s) = 0 THEN 0
    ELSE 10 * StrToNat(SubSeq(s, 1, Len(s) - 1)) + DigitVal(Chr(s, Len(s)))

Returned(v) == [kind |-> "return", value |-> v]
Raised(exc) == [kind |-> "raise", exc |-> exc]

\* A float is kept as the decimal number m / 10^e with no trailing zero in its
\* fraction, so that two floats are equal exactly when the records are.
Float(m, e) == [m |-> m, e |-> e]

\* float(s), for the strings of digits and periods that clean_amount passes:
\* digits with at most one period among them, and at least one digit
PyFloat(s) ==
    LET dots == Len(s) - Len(Remove(s, "."))
        wellFormed == /\ \A i \in 1..Len(s) : Chr(s, i) \in Digits \cup {"."}
                      /\ dots <= 1
                      /\ Len(s) - dots >= 1
    IN  IF ~wellFormed THEN Raised("ValueError")
        ELSE LET dot == IF dots = 0 THEN Len(s) + 1
                        ELSE CHOOSE i \in 1..Len(s) : Chr(s, i) = "."
                 int == SubSeq(s, 1, dot - 1)
                 frac == RStrip(SubSeq(s, dot + 1, Len(s)), {"0"})
             IN  Returned(Float(StrToNat(int \o frac), Len(frac)))

SetItem(d, k, v) == (k :> v) @@ d                     \* d[k] = v
DelItem(d, k) == [x \in DOMAIN d \ {k} |-> d[x]]      \* del d[k]

(***************************************************************************)
(* SwahiliMPESAParser.clean_amount                                         *)
(***************************************************************************)
clean_amount(amount_str) ==
    IF Len(amount_str) = 0 THEN Returned(Float(0, 0))
    ELSE LET cleaned == RStrip(Strip(Remove(Remove(amount_str, ","), " ")), {"."})
         IN  PyFloat(cleaned)

(***************************************************************************)
(* datetime.strptime(s, '%d/%m/%y %I:%M %p')                               *)
(***************************************************************************)
StrptimeFormat ==
    ReCompile(Cat(<<Grp("d", Rep(Digit, 1, 2, FALSE)), Lit("/"),
                    Grp("m", Rep(Digit, 1, 2, FALSE)), Lit("/"),
                    Grp("y", Rep(Digit, 2, 2, FALSE)), Rep(Ws, 1, -1, FALSE),
                    Grp("I", Rep(Digit, 1, 2, FALSE)), Lit(":"),
                    Grp("M", Rep(Digit, 1, 2, FALSE)), Rep(Ws, 1, -1, FALSE),
                    Grp("p", Alt(<<Lit("am"), Lit("pm")>>))>>), TRUE)

DaysInMonth(y, m) ==
    IF m = 2 THEN (IF y % 4 = 0 THEN 29 ELSE 28)
    ELSE IF m \in {4, 6, 9, 11} THEN 30 ELSE 31

Strptime(s) ==
    LET t == Lower(s)
        r == MatchAt(StrptimeFormat, t, 1)
    IN  IF ~r.ok \/ r.end # Len(t) + 1 THEN Raised("ValueError")
        ELSE LET num(g) == StrToNat(SubSeq(t, r.caps[g][1], r.caps[g][2] - 1))
                 y == IF num("y") < 69 THEN 2000 + num("y") ELSE 1900 + num("y")
                 pm == SubSeq(t, r.caps["p"][1], r.caps["p"][2] - 1) = "pm"
             IN  IF \/ num("m") \notin 1..12
                    \/ num("d") \notin 1..DaysInMonth(y, num("m"))
                    \/ num("I") \notin 1..12
                    \/ num("M") \notin 0..59
                 THEN Raised("ValueError")
                 ELSE Returned([year |-> y, month |-> num("m"), day |-> num("d"),
                                hour |-> (num("I") % 12) + (IF pm THEN 12 ELSE 0),
                                minute |-> num("M")])

(***************************************************************************)
(* SwahiliMPESAParser.parse_message                                        *)
(***************************************************************************)
\* result = {k: v for k, v in match.groupdict().items() if v is not None},
\* every value then stripped
groupdict(string, m) ==
    [k \in DOMAIN m.caps |-> Strip(SubSeq(string, m.caps[k][1], m.caps[k][2] - 1))]

RECURSIVE determine_type(_, _, _)
\* for tx_type in self.transaction_patterns.keys(): ... break
determine_type(tps, i, result) ==
    IF i > Len(tps) THEN Returned(result)
    ELSE LET tx_type == tps[i].tag
         IN  IF tx_type \in DOMAIN result /\ Len(result[tx_type]) > 0
             THEN LET r1 == SetItem(result, "aina_ya_muamala", tx_type)
                      amount_key == Lower(tx_type) \o "_amount"
                  IN  IF amount_key \in DOMAIN r1
                      THEN LET a == clean_amount(r1[amount_key])
                           IN  IF a.kind = "raise" THEN a
                               ELSE Returned(DelItem(SetItem(r1, "kiasi", a.value),
                                                     amount_key))
                      ELSE Returned(r1)
             ELSE determine_type(tps, i + 1, result)

\* numeric_fields: a dict, in insertion order
numeric_fields ==
    << [eng_key |-> "mpesa_balance", swa_key |-> "salio_la_mpesa"],
       [eng_key |-> "transaction_cost", swa_key |-> "gharama"],
       [eng_key |-> "daily_limit", swa_key |-> "kikomo_cha_siku"] >>

RECURSIVE clean_numeric_fields(_, _)
\* for eng_key, swa_key in numeric_fields.items(): ...
clean_numeric_fields(i, result) ==
    IF i > Len(numeric_fields) THEN Returned(result)
    ELSE LET f == numeric_fields[i]
         IN  IF f.eng_key \in DOMAIN result
             THEN LET a == clean_amount(result[f.eng_key])
                  IN  IF a.kind = "raise" THEN a
                      ELSE clean_numeric_fields(i + 1,
                               DelItem(SetItem(result, f.swa_key, a.value), f.eng_key))
             ELSE clean_numeric_fields(i + 1, result)

\* if 'date' in result and 'time' in result: try ... except ValueError: pass
parse_date_time(result) ==
    IF "date" \in DOMAIN result /\ "time" \in DOMAIN result
    THEN LET dt == Strptime(result["date"] \o " " \o result["time"])
         IN  IF dt.kind = "raise" THEN result
             ELSE DelItem(DelItem(SetItem(result, "tarehe_na_saa", dt.value), "date"),
                          "time")
    ELSE result

\* a variant of set_status that leaves the status out
set_status_Missing(result) == result

\* result['hali'] = 'IMEFAULU'
set_status(result) == SetItem(result, "hali", "IMEFAULU")

\* the check for failed transactions: failed_match and the mapping it returns
failure_result(self, string) ==
    LET failed_match == Search(self.failed_pattern, string)
    IN  IF failed_match.ok
        THEN Returned([hali |-> "IMESHINDIKANA",
                       sababu |-> SubSeq(string, failed_match.start,
                                         failed_match.end - 1),
                       ujumbe_asili |-> string])
        ELSE NoMatch

Unrecognized == Returned([error |-> "Muundo wa ujumbe hautambuliwi"])

\* from self.pattern.search(message) to the return of result
parse_transaction(self, string) ==
    LET match == Search(self.pattern, string)
    IN  IF ~match.ok
        THEN Unrecognized
        ELSE LET r0 == set_status(groupdict(string, match))
                 r1 == determine_type(self.transaction_patterns, 1, r0)
             IN  IF r1.kind = "raise" THEN r1
                 ELSE LET r2 == clean_numeric_fields(1, r1.value)
                      IN  IF r2.kind = "raise" THEN r2
                          ELSE Returned(parse_date_time(r2.value))

\* a variant of parse_message that looks for a transaction first and for a
\* failure phrase only in a message no grammar matches
parse_message_TransactionFirst(self, message) ==
    IF message.type # "str"
    THEN Returned([error |-> "Ujumbe lazima uwe maandishi"])
    ELSE LET r == parse_transaction(self, message.v)
             failed == failure_result(self, message.v)
         IN  IF r = Unrecognized /\ "kind" \in DOMAIN failed THEN failed ELSE r

\* message is the argument: [type |-> its Python type, v |-> the text of a str]
parse_message(self, message) ==
    IF message.type # "str"
    THEN Returned([error |-> "Ujumbe lazima uwe maandishi"])
    ELSE LET failed == failure_result(self, message.v)
         IN  IF "kind" \in DOMAIN failed THEN failed
             ELSE parse_transaction(self, message.v)

(***************************************************************************)
(* The arguments of parse_message                                          *)
(***************************************************************************)
Text(v) == [type |-> "str", v |-> v]

\* the messages of test_parser
TestMessages ==
    { "TAD72CZ6J3 Imethibitishwa. Baki yako ni: Akaunti ya M-PESA : Ksh263.47 Tarehe 13/1/25 saa 5:36 PM. Gharama ya matumizi ni Ksh0.00.",
      "TAF5BV0XRN Umenunua Ksh5.00 ya mjazo siku 15/1/25 saa 8:44 PM.Baki mpya ya M-PESA ni Ksh38.47.",
      "Hakuna pesa za kutosha katika akaunti yako ya M-PESA kuweza kutuma Ksh3,251.00.",
      "TAE16URS8R Imethibitishwa Ksh10.00 imetumwa kwa MERCILINE  OSEWE tarehe 14/1/25 saa 6:34 PM. Baki yako ya M-PESA ni Ksh113.47. Gharama ya kutuma ni Ksh0.00. Kiwango cha Pesa unachoweza kutuma kwa siku ni 499,870.00.",
      "TAE86U0FMU Imethibitishwa Ksh50.00 imetumwa kwa ELIZABETH  ONYANGO tarehe 14/1/25 saa 6:30 PM. Baki yako ya M-PESA ni Ksh123.47. Gharama ya kutuma ni Ksh0.00. Kiwango cha Pesa unachoweza kutuma kwa siku ni 499,880.00.",
      "TAE55NG2RH Imethibitishwa Ksh50.00 imetumwa kwa ELIZABETH  ONYANGO tarehe 14/1/25 saa 1:48 PM. Baki yako ya M-PESA ni Ksh193.47. Gharama ya kutuma ni Ksh0.00. Kiwango cha Pesa unachoweza kutuma kwa siku ni 499,950.00.",
      "TAE46D879G Imethibitishwa. Umelipa Ksh20.00 kwa JUDITH ATIENO WERE 14/1/25 4:53 PM.Baki yako mpya katika M-PESA ni Ksh173.47. Gharama ya kununua ni Ksh0.00. Kiwango cha Pesa unachoweza kutuma kwa siku ni 499,930.00.Huduma za M-PESA sasa zinapatikana kwa *334#.",
      "TAD43EZZ3O Imethibitishwa Ksh20.00 imetumwa kwa Eliud  Otieno 0792469173 tarehe 13/1/25 saa 8:37 PM. Baki yako ya M-PESA ni Ksh243.47. Gharama ya kutuma ni Ksh0.00.Kiwango cha Pesa unachoweza kutuma kwa siku ni 499,929.00. SAFARICOM HUPIGA NA 0722000000 PEKEE. Kurudisha hizi Pesa,Tuma ujumbe huu kwa 456.",
      "Umekataa kuidhinisha amali ya KSH20.00. Usipositisha kwa mara 5, hautakubaliwa kutumia huduma ya M-PESA HAKIKISHA. Baki yako ya M-PESA ni KSH263.47.",
      "TAD62EDKVQ Imethibitishwa Ksh1.00 imetumwa kwa John  Doe 0729641937 tarehe 13/1/25 saa 5:44 PM. Baki yako ya M-PESA ni Ksh263.47. Gharama ya kutuma ni Ksh0.00.Kiwango cha Pesa unachoweza kutuma kwa siku ni 499,949.00. SAFARICOM HUPIGA NA 0722000000 PEKEE. Kurudisha hizi Pesa,Tuma ujumbe huu kwa 456.",
      "TAD72DJ3YB Imethibitishwa. Umepokea Ksh1.00 kutoka John  Doe 0729641937 mnamo 13/1/25 saa 5:39 PM  Baki yako ya M-PESA ni Ksh264.47. SAFARICOM HUPIGA NA 0722000000 PEKEE. Kurudisha hizi pesa, tuma ujumbe huu kwa 456.TAD72CZ6J3 Imethibitishwa.",
      "Baki yako ni: Akaunti ya M-PESA : Ksh263.47 Tarehe 13/1/25 saa 5:36 PM. Gharama ya matumizi ni Ksh0.00." }

\* the fourth message of test_parser
Message4 ==
    "TAE16URS8R Imethibitishwa Ksh10.00 imetumwa kwa MERCILINE  OSEWE tarehe 14/1/25 saa 6:34 PM. Baki yako ya M-PESA ni Ksh113.47. Gharama ya kutuma ni Ksh0.00. Kiwango cha Pesa unachoweza kutuma kwa siku ni 499,870.00."

Tags == {TransactionPatterns[i].tag : i \in 1..Len(TransactionPatterns)}

\* the primary statement of a category, as its grammar and test_parser write it
Primary(tag, amount, date, time) ==
    CASE tag = "KUTUMA" ->
           "Ksh" \o amount \o " imetumwa kwa John  Doe 0729641937 tarehe " \o date
                 \o " saa " \o time
      [] tag = "KUPOKEA" ->
           "Umepokea Ksh" \o amount \o " kutoka John  Doe 0729641937 mnamo " \o date
                 \o " saa " \o time
      [] tag = "SALIO" ->
           "Baki yako ni: Akaunti ya M-PESA : Ksh" \o amount \o " Tarehe " \o date
                 \o " saa " \o time
      [] tag = "KULIPA_TILL" ->
           "Umelipa Ksh" \o amount \o " kwa JUDITH ATIENO WERE " \o date \o " " \o time
      [] tag = "DATA" ->
           "Ksh" \o amount \o " zimetumwa kwa SAFARICOM DATA BUNDLES mnamo " \o date
                 \o " saa " \o time
      [] tag = "MJAZO" ->
           "Umenunua Ksh" \o amount \o " ya mjazo siku " \o date \o " saa " \o time
      [] tag = "PAYBILL" ->
           "Ksh" \o amount \o " imetumwa kwa Equity Paybill Account"
                 \o " kwa akaunti nambari 247247 mnamo " \o date \o " saa " \o time
      [] tag = "KUPOKEA_BANK" ->
           "Umepokea Ksh" \o amount \o " kutoka Equity Bank 247247 mnamo " \o date
                 \o " saa " \o time
      [] tag = "POCHI_LA_BIASHARA" ->
           "Ksh" \o amount \o " imetumwa kwa MERCILINE  OSEWE tarehe " \o date
                 \o " saa " \o time

\* the trailing statements, as test_parser writes them
Trailing(key, amount) ==
    CASE key = "mpesa_balance" -> " Baki yako ya M-PESA ni Ksh" \o amount \o "."
      [] key = "transaction_cost" -> " Gharama ya kutuma ni Ksh" \o amount \o "."
      [] key = "daily_limit" ->
           " Kiwango cha Pesa unachoweza kutuma kwa siku ni " \o amount \o "."

TrailingKeys == {AdditionalPatterns[i].key : i \in 1..Len(AdditionalPatterns)}

\* the longest amount fragment that is enumerated character by character
MaxAmountLen == 3

AmountAlphabet == {"5", ",", "."}

RECURSIVE Words(_)
\* the strings of exactly n characters of AmountAlphabet
Words(n) ==
    IF n = 0 THEN {""} ELSE {w \o c : w \in Words(n - 1), c \in AmountAlphabet}

\* every fragment [\d,.]+ can capture that is made of 1..MaxAmountLen of these
EnumeratedAmounts == UNION {Words(n) : n \in 1..MaxAmountLen}

TestAmounts == {"10.00", "263.47", "499,870.00", "3,251.00", "1.2.3"}

ValidDate == "14/1/25"
ValidTime == "6:34 PM"

\* date and time fragments the grammars capture: real ones and ones that are not
DateTimes ==
    { <<ValidDate, ValidTime>>, <<"29/2/24", "12:00 AM">>, <<"32/13/25", "5:36 PM">>,
      <<"13/1/25", "13:99 PM">>, <<"30/2/25", "5:36 PM">> }

Prefixes == {"", "TAE16URS8R Imethibitishwa ", "TAD72CZ6J3 Imethibitishwa. "}

\* the orders in which some of the trailing statements can follow, each once
TrailingOrders ==
    LET K == TrailingKeys
    IN  {<<>>} \cup {<<a>> : a \in K}
               \cup {o \in {<<a, b>> : a \in K, b \in K} : o[1] # o[2]}
               \cup {o \in {<<a, b, c>> : a \in K, b \in K, c \in K} :
                        Cardinality({o[1], o[2], o[3]}) = 3}

RECURSIVE TrailingText(_, _)
TrailingText(order, amount) ==
    IF Len(order) = 0 THEN ""
    ELSE Trailing(Head(order), amount) \o TrailingText(Tail(order), amount)

FailurePhrases ==
    {"Hakuna pesa za kutosha", "Imefeli", "Umekataa kuidhinisha amali",
     "Huduma hi haipatikani"}

\* every category with the amounts of test_parser, with every date and time,
\* and after every confirmation prefix; one category with every amount at
\* every date and time
CategoryMessages ==
    {Primary(tag, a, ValidDate, ValidTime) \o "." : tag \in Tags, a \in TestAmounts}
    \cup {Primary(tag, "10.00", dt[1], dt[2]) \o "." : tag \in Tags, dt \in DateTimes}
    \cup {Primary("MJAZO", a, dt[1], dt[2]) \o "." : a \in TestAmounts, dt \in DateTimes}
    \cup {pre \o Primary(tag, "10.00", ValidDate, ValidTime) \o "." :
             pre \in Prefixes, tag \in Tags}

\* every enumerated amount as the primary amount and as a trailing amount
AmountMessages ==
    {Primary("MJAZO", a, ValidDate, ValidTime) \o "." : a \in EnumeratedAmounts}
    \cup {Primary("MJAZO", "5.00", ValidDate, ValidTime) \o "."
              \o Trailing("transaction_cost", a) : a \in EnumeratedAmounts}

\* the trailing statements in every order
TrailingMessages ==
    {Primary(tag, "20.00", ValidDate, ValidTime) \o "." \o TrailingText(order, "113.47") :
         tag \in {"KULIPA_TILL", "MJAZO"}, order \in TrailingOrders}
    \cup {Primary("MJAZO", "20.00", "32/13/25", "13:99 PM") \o "."
              \o TrailingText(order, "499,870.00") : order \in TrailingOrders}

\* a failure phrase alone, before, after and inside a complete transaction
FailureMessages ==
    FailurePhrases
    \cup {ph \o " katika akaunti yako ya M-PESA kuweza kutuma Ksh3,251.00." :
             ph \in FailurePhrases}
    \cup UNION {{ph \o ". " \o Message4,
                 Message4 \o " " \o ph \o ".",
                 Primary(tag, "10.00", ValidDate, ValidTime) \o ". " \o ph \o "."
                     \o TrailingText(<<"mpesa_balance", "transaction_cost">>, "113.47"),
                 "Ksh10.00 imetumwa kwa " \o ph \o " 0729641937 tarehe 14/1/25 saa 6:34 PM."} :
                ph \in FailurePhrases, tag \in {"KUTUMA", "MJAZO"}}

\* two primary statements in one message, and statements two grammars match
TwoCategoryMessages ==
    {Primary(t1, "10.00", ValidDate, ValidTime) \o ". "
         \o Primary(t2, "20.00", ValidDate, ValidTime) \o "." :
         t1 \in Tags, t2 \in Tags}
    \cup {"Ksh10 imetumwa kwa JOHN 0712345678 tarehe 1/1/25 saa 1:00 PM kwa akaunti nambari 123",
          "Ksh10 imetumwa kwa JOHN tarehe 1/1/25 saa 1:00 PM kwa akaunti nambari 123",
          "Umepokea Ksh1.00 kutoka John  Doe 0729641937 mnamo 13/1/25 saa 5:39 PM"}

\* text no grammar and no failure phrase matches
OtherMessages ==
    {"", " ", "hello", "Ksh10.00", "imefeli", "HAKUNA PESA ZA KUTOSHA",
     "Hakuna  pesa za kutosha", "Huduma za M-PESA sasa zinapatikana kwa *334#.",
     "TAD72CZ6J3 Imethibitishwa.",
     "TAE16URS8R Imethibitishwa Ksh10.00 imetumwa kwa MERCILINE OSEWE tarehe 14/1/25 saa 6:34 PM. Kiwango cha Pesa unachoweza kutuma kwa siku ni 499,870.00.",
     "tae16urs8r imethibitishwa\nksh10.00 IMETUMWA KWA merciline\nosewe\tTAREHE 14/1/25 SAA 6:34pm.\nBAKI YAKO YA m-pesa NI KSH113.47."}

TextMessages ==
    TestMessages \cup CategoryMessages \cup AmountMessages \cup TrailingMessages
        \cup FailureMessages \cup TwoCategoryMessages \cup OtherMessages

\* arguments that are no str: None, an int, bytes, a list
NonTextInputs ==
    {[type |-> "NoneType"], [type |-> "int"], [type |-> "bytes"], [type |-> "list"]}

Inputs == {Text(v) : v \in TextMessages} \cup NonTextInputs

(***************************************************************************)
(* The state: the fields of one SwahiliMPESAParser, the argument and the   *)
(* outcome of the latest parse_message call, and how many calls were made. *)
(* first records the outcome of the first call with each argument.         *)
(***************************************************************************)
VARIABLES transaction_patterns, additional_patterns, failed_pattern, pattern,
          message, result, calls, first

fields == <<transaction_patterns, additional_patterns, failed_pattern, pattern>>
vars == <<transaction_patterns, additional_patterns, failed_pattern, pattern,
          message, result, calls, first>>

Self ==
    [transaction_patterns |-> transaction_patterns,
     additional_patterns |-> additional_patterns,
     failed_pattern |-> failed_pattern,
     pattern |-> pattern]

NoMessage == [type |-> "none"]
NoResult == [kind |-> "none"]

\* SwahiliMPESAParser(): __init__, which ends with compile_patterns()
Init ==
    /\ transaction_patterns = TransactionPatterns
    /\ additional_patterns = AdditionalPatterns
    /\ failed_pattern = FailedPattern
    /\ pattern = compile_patterns(TransactionPatterns, AdditionalPatterns)
    /\ message = NoMessage
    /\ result = NoResult
    /\ calls = 0
    /\ first = <<>>

\* a variant of ParseCall in which parse_message rebinds self.pattern to the
\* pattern it searched first
ParseCall_Rebinding(m) ==
    /\ message' = m
    /\ result' = parse_message(Self, m)
    /\ calls' = calls + 1
    /\ first' = IF m \in DOMAIN first THEN first ELSE (m :> result') @@ first
    /\ pattern' = IF m.type = "str" THEN failed_pattern ELSE pattern
    /\ UNCHANGED <<transaction_patterns, additional_patterns, failed_pattern>>

\* parser.parse_message(m)
ParseCall(m) ==
    /\ message' = m
    /\ result' = parse_message(Self, m)
    /\ calls' = calls + 1
    /\ first' = IF m \in DOMAIN first THEN first ELSE (m :> result') @@ first
    /\ UNCHANGED fields

\* one call on a new instance, with any of the inputs
Next == \E m \in Inputs : calls = 0 /\ ParseCall(m)

Spec == Init /\ [][Next]_vars

\* the longest sequence of calls made on one instance
MaxCalls == 3

\* one argument of each kind of outcome: two transactions, an amount that is
\* no number, a failure message, an unrecognized message and an argument
\* that is no str
CallInputs ==
    {Text(Primary("MJAZO", a, ValidDate, ValidTime) \o ".") : a \in {"5.00", "1.2.3"}}
    \cup {Text(Primary("KUPOKEA", "1.00", ValidDate, ValidTime)),
          Text("Imefeli"), Text("hello"), [type |-> "NoneType"]}

\* a sequence of calls on one instance
NextCalls == \E m \in CallInputs : calls < MaxCalls /\ ParseCall(m)

SpecCalls == Init /\ [][NextCalls]_vars

(***************************************************************************)
(* Vocabulary of the properties                                            *)
(***************************************************************************)
Called == calls > 0
IsText == message.type = "str"

Contains(s, sub) ==
    \E i \in 1..(Len(s) - Len(sub) + 1) : SubSeq(s, i, i + Len(sub) - 1) = sub

HasSuffix(s, suf) ==
    Len(s) >= Len(suf) /\ SubSeq(s, Len(s) - Len(suf) + 1, Len(s)) = suf

ContainsFailurePhrase ==
    IsText /\ \E ph \in FailurePhrases : Contains(message.v, ph)

\* the call returned a mapping with status SUCCESS
Succeeded ==
    /\ Called
    /\ result.kind = "return"
    /\ "hali" \in DOMAIN result.value
    /\ result.value["hali"] = "IMEFAULU"

\* the message is text without a failure phrase that the composite matcher
\* matches
Transaction ==
    /\ Called
    /\ IsText
    /\ ~Search(failed_pattern, message.v).ok
    /\ Search(pattern, message.v).ok

\* the fragments the composite matcher captures in the message
Fragments == groupdict(message.v, Search(pattern, message.v))

DateKeys == {k \in DOMAIN Fragments : HasSuffix(k, "_date")}
TimeKeys == {k \in DOMAIN Fragments : HasSuffix(k, "_time")}

\* a category grammar captured both a date and a time fragment
CapturedPair == Transaction /\ DateKeys # {} /\ TimeKeys # {}

\* the captured pair under the format '%d/%m/%y %I:%M %p'
PairOutcome ==
    Strptime(Fragments[CHOOSE k \in DateKeys : TRUE] \o " "
                 \o Fragments[CHOOSE k \in TimeKeys : TRUE])

\* the amount fragment each category grammar captures
AmountFragment ==
    [tag \in Tags |->
        CASE tag = "KULIPA_TILL" -> "kulipa_amount"
          [] tag = "POCHI_LA_BIASHARA" -> "pochi_amount"
          [] OTHER -> Lower(tag) \o "_amount"]

\* the grammar registered i-th, alone, matches the folded text t at pos
GrammarAt(i, t, pos) ==
    MatchAt(ReCompile(transaction_patterns[i].re, TRUE), t, pos).ok

\* the grammar registered i-th, alone, matches somewhere in the message
GrammarMatches(i) ==
    Search(ReCompile(transaction_patterns[i].re, TRUE), message.v).ok

\* the leftmost position of the message at which any category grammar matches
LeftmostPosition ==
    Search(ReCompile(Alt([i \in 1..Len(transaction_patterns) |->
                             transaction_patterns[i].re]), TRUE),
           message.v).start

Min(S) == CHOOSE x \in S : \A y \in S : x <= y

RegisteredTags ==
    {transaction_patterns[i].tag : i \in 1..Len(transaction_patterns)}

(***************************************************************************)
(* C1: a text message that contains one of the fixed failure phrases gets  *)
(* status IMESHINDIKANA with the matched phrase and the original message,  *)
(* and nothing else, whatever transaction text surrounds the phrase.       *)
(***************************************************************************)
C1_FailureShortCircuits ==
    (Called /\ ContainsFailurePhrase) =>
        /\ result.kind = "return"
        /\ DOMAIN result.value = {"hali", "sababu", "ujumbe_asili"}
        /\ result.value["hali"] = "IMESHINDIKANA"
        /\ result.value["sababu"] \in FailurePhrases
        /\ Contains(message.v, result.value["sababu"])
        /\ result.value["ujumbe_asili"] = message.v

\* a failure phrase inside a message the composite matcher would match
C1_Witness ==
    /\ Called
    /\ ContainsFailurePhrase
    /\ Search(pattern, message.v).ok
    /\ result.kind = "return"
    /\ result.value["hali"] = "IMESHINDIKANA"

(***************************************************************************)
(* C2: every SUCCESS result with a category stores the amount under kiasi  *)
(* and no longer holds the category's own amount fragment key.             *)
(***************************************************************************)
C2_AmountCanonical ==
    (Succeeded /\ "aina_ya_muamala" \in DOMAIN result.value) =>
        /\ "kiasi" \in DOMAIN result.value
        /\ AmountFragment[result.value["aina_ya_muamala"]] \notin DOMAIN result.value

(***************************************************************************)
(* C3: when a category grammar captures a date and a time fragment that    *)
(* form a valid pair, the returned result holds tarehe_na_saa and no raw   *)
(* date or time fragment.                                                  *)
(***************************************************************************)
C3_TimestampCombined ==
    (CapturedPair /\ PairOutcome.kind = "return" /\ result.kind = "return") =>
        /\ "tarehe_na_saa" \in DOMAIN result.value
        /\ \A k \in DOMAIN result.value :
              /\ k \notin {"date", "time"}
              /\ ~HasSuffix(k, "_date")
              /\ ~HasSuffix(k, "_time")

(***************************************************************************)
(* C4: every trailing statement (balance, cost, daily limit) that follows  *)
(* the primary fragment, in whatever order, has its canonical field in the *)
(* SUCCESS result.                                                         *)
(***************************************************************************)
C4_TrailingAnyOrder ==
    (Succeeded /\ "aina_ya_muamala" \in DOMAIN result.value) =>
        LET t == Lower(message.v)
            after == Search(pattern, message.v).caps[result.value["aina_ya_muamala"]][2]
        IN  \A i \in 1..Len(additional_patterns) :
                FirstMatch(ReCompile(additional_patterns[i].re, TRUE), t,
                           after, Len(t) + 1).ok
                    => numeric_fields[i].swa_key \in DOMAIN result.value

(***************************************************************************)
(* C5, as stated: every returned mapping includes the status field hali.   *)
(***************************************************************************)
C5_StatusAlways ==
    (Called /\ result.kind = "return") => "hali" \in DOMAIN result.value

(***************************************************************************)
(* C5, amended: a returned mapping holds hali, IMEFAULU or IMESHINDIKANA,  *)
(* and no error entry when a failure phrase or a category grammar matched; *)
(* for an argument that is no text and for an unrecognized message it is   *)
(* the single entry error with the explanatory text, without hali.         *)
(***************************************************************************)
C5_StatusOrError ==
    (Called /\ result.kind = "return") =>
        IF ~IsText
        THEN result.value = [error |-> "Ujumbe lazima uwe maandishi"]
        ELSE IF "hali" \in DOMAIN result.value
             THEN /\ result.value["hali"] \in {"IMEFAULU", "IMESHINDIKANA"}
                  /\ "error" \notin DOMAIN result.value
             ELSE result.value = [error |-> "Muundo wa ujumbe hautambuliwi"]

\* an unrecognized text message was parsed
C5_Witness ==
    /\ Called
    /\ IsText
    /\ result.kind = "return"
    /\ "hali" \notin DOMAIN result.value
    /\ "error" \in DOMAIN result.value

(***************************************************************************)
(* C6: no exception escapes parse_message; every call returns a mapping.   *)
(***************************************************************************)
C6_NoException == Called => result.kind = "return"

(***************************************************************************)
(* C7: the fourth message of test_parser parses to SUCCESS with category   *)
(* KUTUMA, amount 10.00, counterparty MERCILINE OSEWE and daily limit      *)
(* 499870.00.                                                              *)
(***************************************************************************)
C7_Message4 ==
    (Called /\ message = Text(Message4)) =>
        /\ Succeeded
        /\ "aina_ya_muamala" \in DOMAIN result.value
        /\ result.value["aina_ya_muamala"] = "KUTUMA"
        /\ "kiasi" \in DOMAIN result.value
        /\ result.value["kiasi"] = Float(10, 0)
        /\ "kutuma_recipient" \in DOMAIN result.value
        /\ result.value["kutuma_recipient"] \in {"MERCILINE OSEWE", "MERCILINE  OSEWE"}
        /\ "kikomo_cha_siku" \in DOMAIN result.value
        /\ result.value["kikomo_cha_siku"] = Float(499870, 0)

(***************************************************************************)
(* C8: when a category grammar captures a date and a time fragment that do *)
(* not form a real date and time, parse_message still returns SUCCESS with *)
(* the category and the other captured fragments, and without              *)
(* tarehe_na_saa.                                                          *)
(***************************************************************************)
C8_MalformedPairTolerated ==
    (CapturedPair /\ PairOutcome.kind = "raise") =>
        /\ Succeeded
        /\ "aina_ya_muamala" \in DOMAIN result.value
        /\ "tarehe_na_saa" \notin DOMAIN result.value
        /\ \A k \in DOMAIN Fragments :
              (~HasSuffix(k, "_amount")
                   /\ k \notin {numeric_fields[i].eng_key : i \in 1..Len(numeric_fields)})
                  => (k \in DOMAIN result.value /\ result.value[k] = Fragments[k])

(***************************************************************************)
(* C9: every parse_message call leaves the registry, the trailing          *)
(* patterns, the failure pattern and the composite matcher unchanged, and  *)
(* its outcome is the outcome of the first call with the same argument,    *)
(* whatever was parsed in between.                                         *)
(***************************************************************************)
C9_Stateless ==
    [][/\ UNCHANGED fields
       /\ result' = first'[message']]_vars

\* an argument parsed again after calls with other arguments, one of which
\* ended in an exception
C9_Witness ==
    /\ calls >= 3
    /\ Cardinality(DOMAIN first) = 2
    /\ IsText
    /\ result.kind = "return"
    /\ \E m \in DOMAIN first : first[m].kind = "raise" \/ "error" \in DOMAIN first[m].value

(***************************************************************************)
(* C10, as stated: when several category grammars match the message, at    *)
(* the same position or at different ones, the category reported is the    *)
(* one registered earliest among them.                                     *)
(***************************************************************************)
C10_EarliestRegisteredAnywhere ==
    (Succeeded /\ "aina_ya_muamala" \in DOMAIN result.value) =>
        result.value["aina_ya_muamala"] =
            transaction_patterns[
                Min({i \in 1..Len(transaction_patterns) : GrammarMatches(i)})].tag

(***************************************************************************)
(* C10, amended: the category reported is that of the leftmost position of *)
(* the text at which any category grammar matches; among the grammars that *)
(* match at that position the one registered earliest wins, and only that  *)
(* one match is in the result.                                             *)
(***************************************************************************)
C10_LeftmostThenEarliest ==
    (Succeeded /\ "aina_ya_muamala" \in DOMAIN result.value) =>
        LET t == Lower(message.v)
            pos == LeftmostPosition
        IN  /\ result.value["aina_ya_muamala"] =
                 transaction_patterns[
                     Min({i \in 1..Len(transaction_patterns) : GrammarAt(i, t, pos)})].tag
            /\ DOMAIN result.value \cap RegisteredTags
                   = {result.value["aina_ya_muamala"]}

\* two grammars match at the position of the reported category
C10_Witness ==
    /\ Succeeded
    /\ "aina_ya_muamala" \in DOMAIN result.value
    /\ Cardinality({i \in 1..Len(transaction_patterns) :
                       GrammarAt(i, Lower(message.v), LeftmostPosition)}) >= 2

=============================================================================
